---------------------------- MODULE Spec2Model ----------------------------
(***************************************************************************)
(* A model of caikit.core.model_manager.ModelManager: load() with its      *)
(* directory and zip-archive paths, the ordered backend dispatch of        *)
(* _load_from_dir, the singleton cache with its lock, and                  *)
(* clear_singleton_cache / get_singleton_model_cache_info.                 *)
(*                                                                         *)
(* Threads call the public operations concurrently.  Every step that       *)
(* touches state other threads can see (the filesystem, the lock, the      *)
(* cache, the backend configuration) or that calls out to a loader is an   *)
(* action of its own.                                                      *)
(***************************************************************************)
EXTENDS Naturals, Sequences, FiniteSets, TLC

(***************************************************************************)
(* Bounds of the model.                                                    *)
(***************************************************************************)
NumThreads == 2
MaxCalls == 3
MaxBackends == 2

Threads == 1..NumThreads

(***************************************************************************)
(* Paths are sequences of components.                                      *)
(***************************************************************************)
NormStep(acc, c) ==
  IF c = "." THEN acc
  ELSE IF c = ".." /\ Len(acc) > 0 /\ acc[Len(acc)] # ".."
       THEN SubSeq(acc, 1, Len(acc) - 1)
       ELSE Append(acc, c)

RECURSIVE NormFrom(_, _)
NormFrom(acc, rest) ==
  IF rest = <<>> THEN acc
  ELSE NormFrom(NormStep(acc, Head(rest)), Tail(rest))

normpath(p) ==
  LET r == NormFrom(<<>>, p) IN IF r = <<>> THEN <<".">> ELSE r

join(a, b) == a \o b

(* get_config().load_path *)
load_path == <<"models">>

(***************************************************************************)
(* Backends.  A configured backend is shared (a SharedLoadBackendBase) or  *)
(* per-module, and has a backend_type.                                     *)
(***************************************************************************)
backend_types_LOCAL == "LOCAL"
backend_types_REMOTE == "REMOTE"

SH_R == [shared |-> TRUE, backend_type |-> backend_types_REMOTE]
PM_L == [shared |-> FALSE, backend_type |-> backend_types_LOCAL]
PM_R == [shared |-> FALSE, backend_type |-> backend_types_REMOTE]
NoBackend == [shared |-> FALSE, backend_type |-> ""]

BackendPool == {SH_R, PM_L, PM_R}

BackendLists == UNION {[1..n -> BackendPool] : n \in 0..MaxBackends}

(***************************************************************************)
(* Values a loader can hand back: None, a ModuleBase instance, or some     *)
(* other object.  An instance has an identity (id), a class, and the       *)
(* backend it was tagged with by set_load_backend.                         *)
(***************************************************************************)
NoneVal == [kind |-> "None", id |-> 0, cls |-> "", load_backend |-> NoBackend]
Module(id, cls) ==
  [kind |-> "Module", id |-> id, cls |-> cls, load_backend |-> NoBackend]
Other(id) ==
  [kind |-> "Other", id |-> id, cls |-> "dict", load_backend |-> NoBackend]

set_load_backend(model, backend) == [model EXCEPT !.load_backend = backend]

(* Classes whose instances are falsy in a boolean context (define __len__  *)
(* or __bool__).                                                           *)
FalsyClasses == {"F_Local", "F_Remote"}
truthy(v) == v.kind # "None" /\ v.cls \notin FalsyClasses

(***************************************************************************)
(* Model artifacts: what a directory holds.  ModuleConfig.load(dir) finds  *)
(* a config.yml with a module_id and, optionally, a model_backend, or      *)
(* raises FileNotFoundError.                                               *)
(***************************************************************************)
Artifacts ==
  {"mA", "mAr", "mF", "mN", "mX", "mE", "mW", "raw", "bad", "empty"}

HasConfig(art) == art \in {"mA", "mAr", "mF", "mN", "mX", "mE", "mW"}

ConfigModuleId(art) ==
  CASE art \in {"mA", "mAr"} -> "modA"
    [] art = "mF" -> "modF"
    [] art = "mN" -> "modN"
    [] art = "mE" -> "modE"
    [] art = "mW" -> "modW"
    [] OTHER -> "modX"

(* The config's "model_backend" key; "" when the config has none.          *)
ConfigModelBackend(art) ==
  CASE art = "mAr" -> backend_types_REMOTE
    [] art = "mF" -> backend_types_LOCAL
    [] OTHER -> ""

(* module_config.get("model_backend", backend_types.LOCAL) *)
(* A variant of ConfigGetModelBackend: the recorded backend is ignored. *)
AlwaysLocal(art) == backend_types_LOCAL

ConfigGetModelBackend(art) ==
  IF ConfigModelBackend(art) = "" THEN backend_types_LOCAL
  ELSE ConfigModelBackend(art)

(***************************************************************************)
(* module_backend_registry(): module_id -> backend_type -> implementation. *)
(* An implementation class may declare the backends whose artifacts it     *)
(* can load; "declares" is FALSE when the class body names none.  "loads"  *)
(* is what the class's load() does with an artifact it is given.           *)
(***************************************************************************)
Impl(cls, backend_type, declares, declared, loads) ==
  [cls |-> cls, backend_type |-> backend_type, declares |-> declares,
   declared |-> declared, loads |-> loads]

NoImpl == Impl("", "", FALSE, {}, "none")

Registry(module_id, backend_type) ==
  CASE module_id = "modA" /\ backend_type = backend_types_LOCAL ->
         Impl("A_Local", backend_types_LOCAL, FALSE, {}, "model")
    [] module_id = "modA" /\ backend_type = backend_types_REMOTE ->
         Impl("A_Remote", backend_types_REMOTE, TRUE,
              {backend_types_REMOTE}, "model")
    [] module_id = "modF" /\ backend_type = backend_types_LOCAL ->
         Impl("F_Local", backend_types_LOCAL, TRUE,
              {backend_types_LOCAL, backend_types_REMOTE}, "model")
    [] module_id = "modF" /\ backend_type = backend_types_REMOTE ->
         Impl("F_Remote", backend_types_REMOTE, TRUE,
              {backend_types_LOCAL}, "model")
    [] module_id = "modN" /\ backend_type = backend_types_LOCAL ->
         Impl("N_Local", backend_types_LOCAL, FALSE, {}, "none")
    [] module_id = "modN" /\ backend_type = backend_types_REMOTE ->
         Impl("N_Remote", backend_types_REMOTE, TRUE,
              {backend_types_LOCAL, backend_types_REMOTE}, "model")
    [] module_id = "modE" /\ backend_type = backend_types_LOCAL ->
         Impl("E_Local", backend_types_LOCAL, TRUE, {}, "model")
    [] module_id = "modE" /\ backend_type = backend_types_REMOTE ->
         Impl("E_Remote", backend_types_REMOTE, TRUE,
              {backend_types_LOCAL}, "raise")
    [] module_id = "modW" /\ backend_type = backend_types_LOCAL ->
         Impl("W_Local", backend_types_LOCAL, FALSE, {}, "nested")
    [] OTHER -> NoImpl

(* The class attribute named by SUPPORTED_LOAD_BACKENDS_VAR_NAME as a      *)
(* registered implementation class carries it: the list the class          *)
(* declares, and its own backend type alone when it declares none.         *)
SUPPORTED_LOAD_BACKENDS(impl) ==
  [present |-> TRUE,
   value |-> IF impl.declares THEN impl.declared ELSE {impl.backend_type}]

(* What a shared backend's load(module_path) returns for an artifact.      *)
SharedLoads(backend, art) ==
  CASE art \in {"raw", "mAr"} -> "model"
    [] art = "bad" -> "other"
    [] OTHER -> "none"

(***************************************************************************)
(* The disk, and the zip archives a caller can hand to load().             *)
(***************************************************************************)
Dir(art) == [type |-> "dir", content |-> art]
ZipFile(z) == [type |-> "zip", content |-> z]

Disk ==
  (<<"a">> :> Dir("mA")) @@ (<<"ar">> :> Dir("mAr")) @@ (<<"f">> :> Dir("mF"))
  @@ (<<"n">> :> Dir("mN")) @@ (<<"x">> :> Dir("mX")) @@ (<<"err">> :> Dir("mE"))
  @@ (<<"raw">> :> Dir("raw")) @@ (<<"bad">> :> Dir("bad"))
  @@ (<<"e">> :> Dir("empty")) @@ (<<"models", "b">> :> Dir("mAr"))
  @@ (<<"nested.zip">> :> ZipFile("nested")) @@ (<<"w">> :> Dir("mW"))

Zips ==
  {"flat", "nested", "nestedraw", "mac", "two", "rawtwo", "nodirs", "deep"}

(* The artifact at the archive's root once extracted.                      *)
ZipRoot(z) ==
  CASE z = "flat" -> "mAr"
    [] z = "rawtwo" -> "raw"
    [] OTHER -> "empty"

(* The archive's top-level directories: name -> artifact.                  *)
ZipDirs(z) ==
  CASE z = "nested" -> ("model" :> "mAr")
    [] z = "nestedraw" -> ("model" :> "raw")
    [] z = "mac" -> ("__MACOSX" :> "empty") @@ ("model" :> "mAr")
    [] z \in {"two", "rawtwo"} -> ("m1" :> "mAr") @@ ("m2" :> "mAr")
    [] z = "deep" -> ("outer" :> "empty")
    [] OTHER -> <<>>

(* f.startswith("__") *)
(* A variant of startswith__: no name is omitted. *)
NeverDunder(name) == FALSE

startswith__(name) == name \in {"__MACOSX"}

(***************************************************************************)
(* Load targets: a str path, or bytes / a BytesIO holding a zip archive.   *)
(***************************************************************************)
StrTarget(p) == [kind |-> "str", path |-> p, data |-> ""]
BytesTarget(z) == [kind |-> "bytes", path |-> <<>>, data |-> z]
BytesIOTarget(z) == [kind |-> "BytesIO", path |-> <<>>, data |-> z]

RepeatTargets == {StrTarget(<<"ar">>), BytesTarget("nested")}

CoreTargets ==
  RepeatTargets \cup {StrTarget(<<".", "ar">>), StrTarget(<<"f">>)}

Targets ==
  CoreTargets
  \cup {StrTarget(p) : p \in {<<"a">>, <<"n">>, <<"x">>, <<"err">>, <<"raw">>,
                              <<"bad">>, <<"e">>, <<"b">>, <<"nope">>,
                              <<"nested.zip">>}}
  \cup {BytesTarget(z) : z \in Zips}
  \cup {BytesIOTarget("flat")}

(* The targets on offer to a behaviour of n calls: the more calls, the     *)
(* fewer distinct targets.                                                 *)
Workload(n) ==
  IF n <= 1 THEN Targets ELSE IF n = 2 THEN CoreTargets ELSE RepeatTargets

(***************************************************************************)
(* State.                                                                  *)
(***************************************************************************)
VARIABLES
  configured_load_backends, \* module_backend_config.configured_load_backends()
  config_backends,          \* what module_backend_config.configure() installs
  singleton_module_cache,   \* ModelManager.singleton_module_cache
  singleton_lock_holder,    \* holder of ModelManager._singleton_lock, 0 = free
  fs,                       \* the filesystem: path -> directory or zip file
  tmp_count,                \* temporary directories created so far
  n_inst,                   \* objects constructed by loaders so far
  th,                       \* per thread: position and locals of its call
  workload,                 \* the targets callers ask for in this behaviour
  calls_left,               \* operations callers may still start
  clears,                   \* history: clear_singleton_cache calls so far
  evicted                   \* history: keys dropped by the last clear and not
                            \* stored again since

vars ==
  <<configured_load_backends, config_backends, singleton_module_cache,
    singleton_lock_holder, fs, tmp_count, n_inst, th, workload, calls_left,
    clears, evicted>>

NoTarget == [kind |-> "none", path |-> <<>>, data |-> ""]
NoResult == [status |-> "none", cls |-> "", error |-> "", value |-> NoneVal]
Ok(v) == [status |-> "ok", cls |-> "", error |-> "", value |-> v]
Err(cls, code) == [status |-> "error", cls |-> cls, error |-> code, value |-> NoneVal]

(* errno.ENOENT raised by _load_from_dir, line 142 *)
ENOENT == Err("FileNotFoundError", "ENOENT")
(* A variant of NoConfigYml: the missing config is reported by another     *)
(* exception class.                                                        *)
NoConfigAsValueError == Err("ValueError", "config.yml not found")

(* FileNotFoundError raised by ModuleConfig.load for a missing config.yml  *)
NoConfigYml == Err("FileNotFoundError", "config.yml not found")

IdleThread ==
  [pc |-> "idle", op |-> "none", target |-> NoTarget, load_singleton |-> FALSE,
   module_path |-> <<>>, zip |-> "", extract_path |-> <<>>, level |-> 0,
   clb |-> <<>>, i |-> 0, module_id |-> "", model_creation_backend |-> "",
   loaded_model |-> NoneVal, pending |-> NoResult, result |-> NoResult,
   \* history of the call, for the properties
   dirs_tried |-> <<>>, visited |-> <<>>, invoked |-> <<>>, parses |-> 0,
   configures |-> 0, took_lock |-> 0, hit |-> FALSE, was_evicted |-> FALSE,
   fell_back |-> FALSE, art |-> "", key_cached |-> FALSE, epoch0 |-> 0,
   epoch |-> 0,
   \* the load whose loader made this call, when a loader made it
   outer |-> <<>>]

TmpDir(n) == <<"tmp", ToString(n)>>

IsPrefix(p, q) == Len(p) <= Len(q) /\ SubSeq(q, 1, Len(p)) = p

exists(path) == path \in DOMAIN fs
isdir(path) == path \in DOMAIN fs /\ fs[path].type = "dir"
is_zipfile(target, path) ==
  IF target.kind = "str" THEN path \in DOMAIN fs /\ fs[path].type = "zip"
  ELSE TRUE

(* The artifact a loader finds at a path at this moment.                   *)
ArtifactAt(path) == IF isdir(path) THEN fs[path].content ELSE "empty"

(* A variant of Release: the lock is kept. *)
KeepLock(t) == singleton_lock_holder

Release(t) ==
  IF singleton_lock_holder = t THEN 0 ELSE singleton_lock_holder

(***************************************************************************)
(* How a call goes on when _load_from_dir returns or raises.               *)
(*  - called from load() (lines 114-124): a FileNotFoundError becomes      *)
(*    <COR80419785E>, anything else propagates;                            *)
(*  - called from _load_from_zipfile for the extraction root (313-320): a  *)
(*    FileNotFoundError starts the nested-directory fallback;              *)
(*  - called for the nested directory (343-355): a FileNotFoundError       *)
(*    becomes <COR84410081E>.                                              *)
(* Leaving _load_from_zipfile always passes the TemporaryDirectory exit.   *)
(***************************************************************************)
Returned(s, v) ==
  IF s.zip = "" THEN [s EXCEPT !.pc = "done", !.result = Ok(v), !.epoch = clears]
  ELSE [s EXCEPT !.pc = "zip_cleanup", !.pending = Ok(v)]

Raised(s, exc) ==
  IF s.zip = ""
  THEN [s EXCEPT !.pc = "done", !.epoch = clears,
                 !.result = IF exc.cls = "FileNotFoundError"
                            THEN Err("FileNotFoundError", "COR80419785E")
                            ELSE exc]
  ELSE IF exc.cls # "FileNotFoundError"
       THEN [s EXCEPT !.pc = "zip_cleanup", !.pending = exc]
       ELSE IF s.level = 0
            THEN [s EXCEPT !.pc = "zip_fallback"]
            ELSE [s EXCEPT !.pc = "zip_cleanup",
                           !.pending = Err("FileNotFoundError", "COR84410081E")]

(***************************************************************************)
(* load(), lines 95-113: resolve the target to module_path and pick the    *)
(* zip or the directory route.                                             *)
(***************************************************************************)
ResolvePath(target) ==
  IF target.kind = "str"
  THEN normpath(IF ~exists(target.path) THEN join(load_path, target.path)
                ELSE target.path)
  ELSE <<>>

load(t, target, load_singleton) ==
  /\ th[t].pc \in {"idle", "done"}
  /\ calls_left > 0
  /\ target \in workload
  /\ LET module_path == ResolvePath(target)
         zipped == is_zipfile(target, module_path)
     IN th' = [th EXCEPT ![t] =
                 [IdleThread EXCEPT
                    !.pc = IF zipped THEN "zip_extract" ELSE "dir_exists",
                    !.op = "load",
                    !.target = target,
                    !.load_singleton = load_singleton,
                    !.module_path = module_path,
                    !.key_cached = load_singleton
                                   /\ module_path \in DOMAIN singleton_module_cache,
                    !.epoch0 = clears,
                    !.zip = IF ~zipped THEN ""
                            ELSE IF target.kind = "str"
                                 THEN fs[module_path].content
                                 ELSE target.data]]
  /\ calls_left' = calls_left - 1
  /\ UNCHANGED <<configured_load_backends, config_backends,
                 singleton_module_cache, singleton_lock_holder, fs, tmp_count,
                 n_inst, workload, clears, evicted>>

(***************************************************************************)
(* _load_from_zipfile, lines 307-309: a fresh TemporaryDirectory, and the  *)
(* archive extracted into it.                                              *)
(***************************************************************************)
Extracted(z, d) ==
  [p \in {d} \cup {Append(d, name) : name \in DOMAIN ZipDirs(z)} |->
     IF p = d THEN Dir(ZipRoot(z)) ELSE Dir(ZipDirs(z)[p[Len(p)]])]

_load_from_zipfile_extract(t) ==
  /\ th[t].pc = "zip_extract"
  /\ LET d == TmpDir(tmp_count + 1)
     IN /\ fs' = Extracted(th[t].zip, d) @@ fs
        /\ th' = [th EXCEPT ![t] = [@ EXCEPT !.pc = "dir_exists",
                                             !.extract_path = d,
                                             !.module_path = d,
                                             !.level = 0]]
  /\ tmp_count' = tmp_count + 1
  /\ UNCHANGED <<configured_load_backends, config_backends,
                 singleton_module_cache, singleton_lock_holder, n_inst,
                 workload, calls_left, clears, evicted>>

(***************************************************************************)
(* _load_from_dir, lines 140-144: the path must exist.                     *)
(***************************************************************************)
(* A variant of NeedsLock: every load takes the lock. *)
LockAlways(load_singleton) == TRUE

(* A variant of NeedsLock: no load takes the lock. *)
LockNever(load_singleton) == FALSE

(* singleton_lock, line 467: "if load_singleton" *)
NeedsLock(load_singleton) == load_singleton

_load_from_dir_exists(t) ==
  /\ th[t].pc = "dir_exists"
  /\ LET s == [th[t] EXCEPT !.dirs_tried = Append(@, th[t].module_path),
                            !.art = ArtifactAt(th[t].module_path),
                            !.i = 0, !.module_id = "",
                            !.model_creation_backend = "",
                            !.loaded_model = NoneVal,
                            !.visited = <<>>, !.invoked = <<>>]
     IN th' = [th EXCEPT ![t] =
                 IF ~exists(s.module_path) THEN Raised(s, ENOENT)
                 ELSE [s EXCEPT !.pc = IF NeedsLock(s.load_singleton)
                                       THEN "acquire" ELSE "lookup"]]
  /\ UNCHANGED <<configured_load_backends, config_backends,
                 singleton_module_cache, singleton_lock_holder, fs, tmp_count,
                 n_inst, workload, calls_left, clears, evicted>>

(***************************************************************************)
(* singleton_lock(load_singleton), lines 462-471, entered at line 149:     *)
(* only a singleton load takes _singleton_lock, and waits for it.          *)
(***************************************************************************)
singleton_lock_acquire(t) ==
  /\ th[t].pc = "acquire"
  /\ singleton_lock_holder = 0
  /\ singleton_lock_holder' = t
  /\ th' = [th EXCEPT ![t] = [@ EXCEPT !.pc = "lookup",
                                       !.took_lock = @ + 1]]
  /\ UNCHANGED <<configured_load_backends, config_backends,
                 singleton_module_cache, fs, tmp_count, n_inst, workload,
                 calls_left, clears, evicted>>

(***************************************************************************)
(* _load_from_dir, lines 155-163:                                          *)
(*   singleton_entry := load_singleton and cache.get(module_path)          *)
(* is tested for truth; a true entry is returned.  Otherwise the           *)
(* configured backends are read.                                           *)
(***************************************************************************)
cache_get(key) ==
  IF key \in DOMAIN singleton_module_cache THEN singleton_module_cache[key]
  ELSE NoneVal

singleton_entry(s) ==
  IF s.load_singleton THEN cache_get(s.module_path) ELSE NoneVal

(* lines 161-163: the configured backends as read on a cache miss *)
GetBackends(s) ==
  [s EXCEPT !.clb = configured_load_backends,
            !.pc = IF configured_load_backends = <<>> THEN "configure"
                   ELSE "loop"]

_load_from_dir_lookup(t) ==
  /\ th[t].pc = "lookup"
  /\ LET s == [th[t] EXCEPT !.was_evicted = th[t].load_singleton
                                             /\ th[t].module_path \in evicted]
         entry == singleton_entry(s)
     IN IF truthy(entry)
        THEN /\ th' = [th EXCEPT ![t] = Returned([s EXCEPT !.hit = TRUE], entry)]
             /\ singleton_lock_holder' = Release(t)
        ELSE /\ th' = [th EXCEPT ![t] = GetBackends(s)]
             /\ UNCHANGED singleton_lock_holder
  /\ UNCHANGED <<configured_load_backends, config_backends,
                 singleton_module_cache, fs, tmp_count, n_inst, workload,
                 calls_left, clears, evicted>>

(***************************************************************************)
(* _load_from_dir, lines 164-171: no backends configured, so configure()   *)
(* is called and the list read again.                                      *)
(***************************************************************************)
LoopOrFinish(clb) == IF clb = <<>> THEN "finish" ELSE "loop"

_load_from_dir_configure(t) ==
  /\ th[t].pc = "configure"
  /\ configured_load_backends' = config_backends
  /\ th' = [th EXCEPT ![t] = [@ EXCEPT !.clb = config_backends,
                                       !.configures = @ + 1,
                                       !.pc = LoopOrFinish(config_backends)]]
  /\ UNCHANGED <<config_backends, singleton_module_cache,
                 singleton_lock_holder, fs, tmp_count, n_inst, workload,
                 calls_left, clears, evicted>>

(***************************************************************************)
(* _get_supported_load_backends, lines 473-491:                            *)
(*   getattr(backend_impl, SUPPORTED_LOAD_BACKENDS_VAR_NAME, [])           *)
(***************************************************************************)
_get_supported_load_backends(backend_impl) ==
  LET attr == SUPPORTED_LOAD_BACKENDS(backend_impl)
  IN IF attr.present THEN attr.value ELSE {}

(* A variant of CanLoadWith: no compatibility check. *)
CanLoadAlways(model_creation_backend, module_backend_impl) == TRUE

(* line 254 *)
CanLoadWith(model_creation_backend, module_backend_impl) ==
  model_creation_backend \in _get_supported_load_backends(module_backend_impl)

(***************************************************************************)
(* One iteration of the loop over configured_load_backends, lines          *)
(* 186-275, for the backend at position k.  Each operator gives the        *)
(* thread's locals after the iteration; "built" says whether a loader      *)
(* constructed an object.                                                  *)
(***************************************************************************)
(* A variant of Continue: the loop ends at the first skip. *)
StopHere(s, k) == [s EXCEPT !.i = k, !.pc = "finish"]

Continue(s, k) ==
  [s EXCEPT !.i = k, !.pc = IF k = Len(s.clb) THEN "finish" ELSE "loop"]

(* A variant of Break: the loop goes on after a model was loaded. *)
KeepGoing(s, k, model) ==
  Continue([s EXCEPT !.loaded_model = set_load_backend(model, s.clb[k])], k)

Break(s, k, model) ==
  [s EXCEPT !.i = k, !.pc = "finish",
            !.loaded_model = set_load_backend(model, s.clb[k])]

(* A variant of TryShared: what the loader returns is not type checked. *)
TrySharedUnchecked(s, k, art) ==
  LET out == SharedLoads(s.clb[k], art)
      s1 == [s EXCEPT !.visited = Append(@, k), !.invoked = Append(@, k)]
  IN IF out = "none"
     THEN [s |-> Continue(s1, k), built |-> 0, exc |-> NoResult]
     ELSE [s |-> Break(s1, k, IF out = "model"
                              THEN Module(n_inst + 1, "SharedModel")
                              ELSE Other(n_inst + 1)),
           built |-> 1, exc |-> NoResult]

(* lines 188-212 *)
TryShared(s, k, art) ==
  LET out == SharedLoads(s.clb[k], art)
      s1 == [s EXCEPT !.visited = Append(@, k), !.invoked = Append(@, k)]
  IN CASE out = "none" -> [s |-> Continue(s1, k), built |-> 0, exc |-> NoResult]
       [] out = "model" ->
            [s |-> Break(s1, k, Module(n_inst + 1, "SharedModel")),
             built |-> 1, exc |-> NoResult]
       [] OTHER ->
            [s |-> s1, built |-> 1, exc |-> Err("TypeError", "COR76726077E")]

(* A variant of ParseConfig: the config is read for every backend. *)
ParseAgain(s, art) ==
  [s EXCEPT !.parses = @ + 1,
            !.module_id = ConfigModuleId(art),
            !.model_creation_backend = ConfigGetModelBackend(art)]

(* lines 218-233: the config is read the first time it is needed *)
ParseConfig(s, art) ==
  IF s.module_id # "" THEN s
  ELSE [s EXCEPT !.parses = @ + 1,
                 !.module_id = ConfigModuleId(art),
                 !.model_creation_backend = ConfigGetModelBackend(art)]

(* A variant of TryImplementation: a loader that raises is passed over. *)
TryImplementationLenient(s, k) ==
  LET backend_impl_obj == Registry(s.module_id, s.clb[k].backend_type)
      s1 == [s EXCEPT !.visited = Append(@, k)]
      s2 == [s1 EXCEPT !.invoked = Append(@, k)]
  IN IF backend_impl_obj = NoImpl
        \/ ~CanLoadWith(s.model_creation_backend, backend_impl_obj)
     THEN [s |-> Continue(s1, k), built |-> 0, exc |-> NoResult]
     ELSE IF backend_impl_obj.loads = "model"
     THEN [s |-> Break(s2, k, Module(n_inst + 1, backend_impl_obj.cls)),
           built |-> 1, exc |-> NoResult]
     ELSE [s |-> Continue(s2, k), built |-> 0, exc |-> NoResult]

(* lines 235-275 *)
TryImplementation(s, k) ==
  LET backend_impl_obj == Registry(s.module_id, s.clb[k].backend_type)
      s1 == [s EXCEPT !.visited = Append(@, k)]
      s2 == [s1 EXCEPT !.invoked = Append(@, k)]
  IN IF backend_impl_obj = NoImpl
     THEN [s |-> Continue(s1, k), built |-> 0, exc |-> NoResult]
     ELSE IF ~CanLoadWith(s.model_creation_backend, backend_impl_obj)
     THEN [s |-> Continue(s1, k), built |-> 0, exc |-> NoResult]
     ELSE CASE backend_impl_obj.loads = "model" ->
                 [s |-> Break(s2, k, Module(n_inst + 1, backend_impl_obj.cls)),
                  built |-> 1, exc |-> NoResult]
            [] backend_impl_obj.loads = "none" ->
                 [s |-> Continue([s2 EXCEPT !.loaded_model = NoneVal], k),
                  built |-> 0, exc |-> NoResult]
            [] backend_impl_obj.loads = "nested" ->
                 [s |-> [s2 EXCEPT !.pc = "nested_call"],
                  built |-> 0, exc |-> NoResult]
            [] OTHER ->
                 [s |-> s2, built |-> 0, exc |-> Err("RuntimeError", "loader raised")]

(* lines 216-275 *)
TryPerModule(s, k, art) ==
  IF s.module_id = "" /\ ~HasConfig(art)
  THEN [s |-> [s EXCEPT !.parses = @ + 1, !.visited = Append(@, k)],
        built |-> 0, exc |-> NoConfigYml]
  ELSE TryImplementation(ParseConfig(s, art), k)

(* A variant of TryBackend: every backend is taken for a per-module one. *)
TryAsPerModule(s, k, art) == TryPerModule(s, k, art)

TryBackend(s, k, art) ==
  IF s.clb[k].shared THEN TryShared(s, k, art) ELSE TryPerModule(s, k, art)

_load_from_dir_loop(t) ==
  /\ th[t].pc = "loop"
  /\ th[t].i < Len(th[t].clb)
  /\ LET r == TryBackend(th[t], th[t].i + 1, ArtifactAt(th[t].module_path))
     IN /\ n_inst' = n_inst + r.built
        /\ IF r.exc = NoResult
           THEN /\ th' = [th EXCEPT ![t] = r.s]
                /\ UNCHANGED singleton_lock_holder
           ELSE /\ th' = [th EXCEPT ![t] = Raised(r.s, r.exc)]
                /\ singleton_lock_holder' = Release(t)
  /\ UNCHANGED <<configured_load_backends, config_backends,
                 singleton_module_cache, fs, tmp_count, workload, calls_left,
                 clears, evicted>>

(***************************************************************************)
(* _load_from_dir, lines 277-291: no model is an error; a singleton load   *)
(* stores the model under module_path; the with block is left.             *)
(***************************************************************************)
CacheAfterLoad(s) ==
  IF s.load_singleton
  THEN (s.module_path :> s.loaded_model) @@ singleton_module_cache
  ELSE singleton_module_cache

_load_from_dir_finish(t) ==
  /\ th[t].pc = "finish"
  /\ LET s == th[t]
     IN IF s.loaded_model.kind = "None"
        THEN /\ th' = [th EXCEPT ![t] =
                         Raised(s, Err("ValueError", "COR50207494E"))]
             /\ UNCHANGED <<singleton_module_cache, evicted>>
        ELSE /\ singleton_module_cache' = CacheAfterLoad(s)
             /\ th' = [th EXCEPT ![t] = Returned(s, s.loaded_model)]
             /\ evicted' = IF s.load_singleton THEN evicted \ {s.module_path}
                           ELSE evicted
  /\ singleton_lock_holder' = Release(t)
  /\ UNCHANGED <<configured_load_backends, config_backends, fs, tmp_count,
                 n_inst, workload, calls_left, clears>>

(***************************************************************************)
(* _load_from_zipfile, lines 320-346: no config at the extraction root;    *)
(* look for exactly one directory below it, "__" names aside.              *)
(***************************************************************************)
listdir(path) ==
  {p[Len(p)] : p \in {q \in DOMAIN fs : Len(q) = Len(path) + 1 /\ IsPrefix(path, q)}}

nested_dirs(extract_path) ==
  {Append(extract_path, f) : f \in {g \in listdir(extract_path) :
      isdir(Append(extract_path, g)) /\ ~startswith__(g)}}

(* A variant of NotOneDir: only an empty listing is an error. *)
NoDirAtAll(dirs) == Cardinality(dirs) = 0

(* line 334: len(nested_dirs) != 1 *)
NotOneDir(dirs) == Cardinality(dirs) # 1

_load_from_zipfile_fallback(t) ==
  /\ th[t].pc = "zip_fallback"
  /\ LET dirs == nested_dirs(th[t].extract_path)
     IN th' = [th EXCEPT ![t] =
                 IF NotOneDir(dirs)
                 THEN [@ EXCEPT !.pc = "zip_cleanup",
                                !.pending = Err("FileNotFoundError", "COR06761097E")]
                 ELSE [@ EXCEPT !.pc = "dir_exists",
                                !.module_path = CHOOSE d \in dirs : TRUE,
                                !.level = 1,
                                !.fell_back = TRUE]]
  /\ UNCHANGED <<configured_load_backends, config_backends,
                 singleton_module_cache, singleton_lock_holder, fs, tmp_count,
                 n_inst, workload, calls_left, clears, evicted>>

(***************************************************************************)
(* Leaving "with tempfile.TemporaryDirectory()", line 307: the directory   *)
(* is removed, and load() returns or raises what _load_from_zipfile did.   *)
(***************************************************************************)
RemoveTree(path) ==
  [p \in {q \in DOMAIN fs : ~IsPrefix(path, q)} |-> fs[p]]

_load_from_zipfile_cleanup(t) ==
  /\ th[t].pc = "zip_cleanup"
  /\ fs' = RemoveTree(th[t].extract_path)
  /\ th' = [th EXCEPT ![t] = [@ EXCEPT !.pc = "done", !.result = th[t].pending,
                                       !.epoch = clears]]
  /\ UNCHANGED <<configured_load_backends, config_backends,
                 singleton_module_cache, singleton_lock_holder, tmp_count,
                 n_inst, workload, calls_left, clears, evicted>>

(***************************************************************************)
(* clear_singleton_cache, lines 452-460: under _singleton_lock.            *)
(***************************************************************************)
(* A variant of ClearedCache: the entries are kept. *)
UnclearedCache == singleton_module_cache

(* line 460: self.singleton_module_cache.clear() *)
ClearedCache == <<>>

clear_singleton_cache(t) ==
  /\ th[t].pc \in {"idle", "done"}
  /\ calls_left > 0
  /\ singleton_lock_holder = 0
  /\ singleton_module_cache' = ClearedCache
  /\ evicted' = evicted \cup DOMAIN singleton_module_cache
  /\ clears' = clears + 1
  /\ th' = [th EXCEPT ![t] = [IdleThread EXCEPT !.pc = "done", !.op = "clear"]]
  /\ calls_left' = calls_left - 1
  /\ UNCHANGED <<configured_load_backends, config_backends,
                 singleton_lock_holder, fs, tmp_count, n_inst, workload>>

(* get_singleton_model_cache_info, lines 443-450: key -> type(value) *)
get_singleton_model_cache_info ==
  [k \in DOMAIN singleton_module_cache |-> singleton_module_cache[k].cls]

(***************************************************************************)
(* The environment removes a model directory from the disk.                *)
(***************************************************************************)
RemovablePaths == {ResolvePath(tg) : tg \in {x \in workload : x.kind = "str"}}

RemoveDir(path) ==
  /\ calls_left > 0
  /\ isdir(path)
  /\ \A t \in Threads : th[t].pc \in {"idle", "done"}
  /\ fs' = RemoveTree(path)
  /\ calls_left' = calls_left - 1
  /\ UNCHANGED <<configured_load_backends, config_backends,
                 singleton_module_cache, singleton_lock_holder, tmp_count,
                 n_inst, th, workload, clears, evicted>>

(***************************************************************************)
(* Initial states: a manager just constructed (lines 65-69), backends      *)
(* configured or not yet.  A behaviour makes up to MaxCalls calls, on the  *)
(* targets Workload offers for that many calls.                            *)
(***************************************************************************)
Init ==
  /\ config_backends \in BackendLists
  /\ configured_load_backends \in {<<>>, config_backends}
  /\ singleton_module_cache = <<>>
  /\ singleton_lock_holder = 0
  /\ fs = Disk
  /\ tmp_count = 0
  /\ n_inst = 0
  /\ th = [t \in Threads |-> IdleThread]
  /\ calls_left \in 1..MaxCalls
  /\ workload = Workload(calls_left)
  /\ clears = 0
  /\ evicted = {}

Next ==
  \/ \E t \in Threads, target \in Targets, load_singleton \in BOOLEAN :
       load(t, target, load_singleton)
  \/ \E t \in Threads : _load_from_zipfile_extract(t)
  \/ \E t \in Threads : _load_from_dir_exists(t)
  \/ \E t \in Threads : singleton_lock_acquire(t)
  \/ \E t \in Threads : _load_from_dir_lookup(t)
  \/ \E t \in Threads : _load_from_dir_configure(t)
  \/ \E t \in Threads : _load_from_dir_loop(t)
  \/ \E t \in Threads : _load_from_dir_finish(t)
  \/ \E t \in Threads : _load_from_zipfile_fallback(t)
  \/ \E t \in Threads : _load_from_zipfile_cleanup(t)
  \/ \E t \in Threads : clear_singleton_cache(t)
  \/ \E path \in RemovablePaths : RemoveDir(path)

Spec == Init /\ [][Next]_vars

(***************************************************************************)
(* A loader that loads a sub-model through the same manager: the load() of *)
(* a "nested" implementation class, running at lines 262-267 inside the    *)
(* dispatch loop of its caller, calls load(sub, load_singleton=True).      *)
(* The caller's locals wait in "outer" until that call returns or raises.  *)
(***************************************************************************)
NestedSub == StrTarget(<<"a">>)

nested_load(t) ==
  /\ th[t].pc = "nested_call"
  /\ LET module_path == ResolvePath(NestedSub)
     IN th' = [th EXCEPT ![t] =
                 [IdleThread EXCEPT
                    !.pc = "dir_exists",
                    !.op = "load",
                    !.target = NestedSub,
                    !.load_singleton = TRUE,
                    !.module_path = module_path,
                    !.key_cached = module_path \in DOMAIN singleton_module_cache,
                    !.epoch0 = clears,
                    !.outer = <<th[t]>>]]
  /\ UNCHANGED <<configured_load_backends, config_backends,
                 singleton_module_cache, singleton_lock_holder, fs, tmp_count,
                 n_inst, workload, calls_left, clears, evicted>>

(* The sub-model's load is over: the loader returns its own model, built   *)
(* around the sub-model, or lets the exception of the inner load through.  *)
nested_return(t) ==
  /\ th[t].pc = "done"
  /\ th[t].outer # <<>>
  /\ LET o == th[t].outer[1]
         k == o.i + 1
         cls == Registry(o.module_id, o.clb[k].backend_type).cls
     IN IF th[t].result.status = "ok"
        THEN /\ th' = [th EXCEPT ![t] = Break(o, k, Module(n_inst + 1, cls))]
             /\ n_inst' = n_inst + 1
             /\ UNCHANGED singleton_lock_holder
        ELSE /\ th' = [th EXCEPT ![t] = Raised(o, th[t].result)]
             /\ singleton_lock_holder' = Release(t)
             /\ UNCHANGED n_inst
  /\ UNCHANGED <<configured_load_backends, config_backends,
                 singleton_module_cache, fs, tmp_count, workload, calls_left,
                 clears, evicted>>

(***************************************************************************)
(* The manager loading models whose loaders load a sub-model, every        *)
(* thread that can take a step eventually taking one.                      *)
(***************************************************************************)
NestedTargets == {StrTarget(<<"w">>), NestedSub}

InitNested ==
  /\ config_backends \in BackendLists
  /\ configured_load_backends \in {<<>>, config_backends}
  /\ singleton_module_cache = <<>>
  /\ singleton_lock_holder = 0
  /\ fs = Disk
  /\ tmp_count = 0
  /\ n_inst = 0
  /\ th = [t \in Threads |-> IdleThread]
  /\ calls_left \in 1..MaxCalls
  /\ workload = NestedTargets
  /\ clears = 0
  /\ evicted = {}

(* The steps of thread t inside a call it has made. *)
Step(t) ==
  \/ _load_from_dir_exists(t)
  \/ singleton_lock_acquire(t)
  \/ _load_from_dir_lookup(t)
  \/ _load_from_dir_configure(t)
  \/ _load_from_dir_loop(t)
  \/ _load_from_dir_finish(t)
  \/ nested_load(t)
  \/ nested_return(t)

NextNested ==
  \/ \E t \in Threads, target \in NestedTargets, load_singleton \in BOOLEAN :
       th[t].outer = <<>> /\ load(t, target, load_singleton)
  \/ \E t \in Threads : _load_from_dir_exists(t)
  \/ \E t \in Threads : singleton_lock_acquire(t)
  \/ \E t \in Threads : _load_from_dir_lookup(t)
  \/ \E t \in Threads : _load_from_dir_configure(t)
  \/ \E t \in Threads : _load_from_dir_loop(t)
  \/ \E t \in Threads : _load_from_dir_finish(t)
  \/ \E t \in Threads : nested_load(t)
  \/ \E t \in Threads : nested_return(t)

SpecNested ==
  InitNested /\ [][NextNested]_vars /\ \A t \in Threads : WF_vars(Step(t))


(***************************************************************************)
(* Properties.                                                             *)
(***************************************************************************)
Done(t) == th[t].pc = "done" /\ th[t].op = "load"
Succeeded(t) == Done(t) /\ th[t].result.status = "ok"
Failed(t, code) ==
  Done(t) /\ th[t].result.status = "error" /\ th[t].result.error = code
Range(seq) == {seq[j] : j \in 1..Len(seq)}

(* C1: singleton loads of one target, with no clear between them, build    *)
(* one instance and all return it: any two such loads that succeeded       *)
(* returned the identical instance.                                        *)
C1_SingletonLoadsShareOneInstance ==
  \A t, u \in Threads :
    ( /\ Succeeded(t) /\ Succeeded(u)
      /\ th[t].load_singleton /\ th[u].load_singleton
      /\ th[t].target = th[u].target
      /\ th[t].epoch = th[u].epoch )
    => th[t].result.value.id = th[u].result.value.id

(* C2: a singleton load called while its key is in the cache (and with no  *)
(* clear before it ends) returns from the cache: it succeeds, invokes no   *)
(* loader, does not call configure() and does not parse the config.        *)
C2_CachedKeyServedWithoutLoading ==
  \A t \in Threads :
    (Done(t) /\ th[t].load_singleton /\ th[t].key_cached
       /\ th[t].epoch0 = th[t].epoch)
    => /\ th[t].result.status = "ok"
       /\ th[t].hit
       /\ th[t].invoked = <<>>
       /\ th[t].configures = 0
       /\ th[t].parses = 0

NonSingleton(t) == th[t].op = "load" /\ ~th[t].load_singleton

(* C3: a load with load_singleton=False never takes or waits for the       *)
(* singleton lock, is never served from the cache, every one of its steps  *)
(* leaves the cache and the lock as they were, it succeeds only through a  *)
(* loader it invoked itself, and two such loads never share an instance.   *)
C3_NonSingletonBypassesLockAndCache ==
  /\ [](\A t \in Threads : NonSingleton(t) =>
          /\ th[t].took_lock = 0
          /\ th[t].pc # "acquire"
          /\ singleton_lock_holder # t
          /\ ~th[t].hit
          /\ (Succeeded(t) => th[t].invoked # <<>>))
  /\ [](\A t, u \in Threads :
          (t # u /\ NonSingleton(t) /\ NonSingleton(u)
             /\ Succeeded(t) /\ Succeeded(u))
          => th[t].result.value.id # th[u].result.value.id)
  /\ [][\A t \in Threads :
          (th'[t] # th[t] /\ th'[t].op = "load" /\ ~th'[t].load_singleton)
          => /\ singleton_module_cache' = singleton_module_cache
             /\ singleton_lock_holder' = singleton_lock_holder]_vars

(* A non-singleton load of a cached key has finished with an instance of   *)
(* its own while another thread holds the lock inside its dispatch loop.   *)
C3_Witness ==
  \E t, u \in Threads :
    /\ t # u
    /\ NonSingleton(t) /\ Succeeded(t)
    /\ singleton_lock_holder = u /\ th[u].pc = "loop"
    /\ th[t].module_path \in DOMAIN singleton_module_cache
    /\ singleton_module_cache[th[t].module_path].id < th[t].result.value.id

(* C4: right after clear_singleton_cache the cache info is the empty       *)
(* mapping; a key dropped by the clear is in the cache no more, a          *)
(* singleton load that looks it up is not served from the cache, and when  *)
(* its dispatch yields a model that model is stored under the key.         *)
C4_ClearThenReload ==
  /\ [](evicted \cap DOMAIN singleton_module_cache = {})
  /\ [](\A t \in Threads : th[t].was_evicted =>
          /\ ~th[t].hit
          /\ (Succeeded(t) => th[t].invoked # <<>>))
  /\ [][/\ clears' # clears => get_singleton_model_cache_info' = <<>>
        /\ \A t \in Threads :
             (th[t].pc = "finish" /\ th[t].was_evicted
                /\ th[t].loaded_model.kind # "None" /\ th'[t] # th[t])
             => /\ th[t].module_path \in DOMAIN singleton_module_cache'
                /\ singleton_module_cache'[th[t].module_path] = th[t].loaded_model
                /\ th'[t].result = Ok(th[t].loaded_model)]_vars

(* A key was cached, dropped by a clear, loaded again as a singleton by a  *)
(* fresh dispatch, and is in the cache again.                              *)
C4_Witness ==
  \E t \in Threads :
    /\ Succeeded(t) /\ th[t].was_evicted /\ ~th[t].hit
    /\ clears > 0
    /\ cache_get(th[t].module_path) = th[t].result.value

(* C5: after a successful singleton load of target T (and no clear since)  *)
(* the cache has an entry whose key is T as the caller gave it.            *)
C5_CacheKeyIsTargetAsGiven ==
  \A t \in Threads :
    (Succeeded(t) /\ th[t].load_singleton /\ th[t].epoch = clears)
    => /\ th[t].target.kind = "str"
       /\ th[t].target.path \in DOMAIN singleton_module_cache

(***************************************************************************)
(* What the dispatch is to do, stated from the backend list and the        *)
(* artifact alone.                                                         *)
(***************************************************************************)
(* The creation backend an artifact records, the local one by default.     *)
CreationBackend(art) ==
  IF ConfigModelBackend(art) = "" THEN backend_types_LOCAL
  ELSE ConfigModelBackend(art)

(* The implementation declares the creation backend, or declares nothing   *)
(* and is of the creation backend's own kind.                              *)
Compatible(impl, creation) ==
  \/ impl.declares /\ creation \in impl.declared
  \/ ~impl.declares /\ creation = impl.backend_type

(* A per-module backend has an implementation for the artifact's module    *)
(* that matches its creation backend.                                      *)
Matches(b, art) ==
  /\ ~b.shared
  /\ HasConfig(art)
  /\ Registry(ConfigModuleId(art), b.backend_type) # NoImpl
  /\ Compatible(Registry(ConfigModuleId(art), b.backend_type),
                CreationBackend(art))

(* What one backend's attempt comes to: a model, a soft skip, the missing  *)
(* config, or another error.                                               *)
Yield(b, art) ==
  IF b.shared
  THEN CASE SharedLoads(b, art) = "model" -> "model"
         [] SharedLoads(b, art) = "none" -> "skip"
         [] OTHER -> "fatal"
  ELSE IF ~HasConfig(art) THEN "nocfg"
  ELSE IF ~Matches(b, art) THEN "skip"
  ELSE CASE Registry(ConfigModuleId(art), b.backend_type).loads = "model" -> "model"
         [] Registry(ConfigModuleId(art), b.backend_type).loads = "none" -> "skip"
         [] OTHER -> "fatal"

AllSkipBefore(clb, k, art) == \A j \in 1..(k - 1) : Yield(clb[j], art) = "skip"

DispatchOutcome(clb, art) ==
  IF \A k \in 1..Len(clb) : Yield(clb[k], art) = "skip" THEN "exhausted"
  ELSE Yield(clb[CHOOSE k \in 1..Len(clb) :
                   Yield(clb[k], art) # "skip" /\ AllSkipBefore(clb, k, art)], art)

InOrder(seq) == \A j \in 1..Len(seq) : seq[j] = j
Increasing(seq) == \A j, l \in 1..Len(seq) : j < l => seq[j] < seq[l]

(* C6: the loop visits the backends 1, 2, 3, ... in list order; once a     *)
(* loader has returned a model the loop is over: the winner is the last    *)
(* backend visited and invoked, every backend before it was a soft skip,   *)
(* the model is tagged with the winner and is what the load returns.       *)
C6_FirstSuccessWinsInListOrder ==
  \A t \in Threads :
    th[t].op = "load" =>
      /\ InOrder(th[t].visited)
      /\ Increasing(th[t].invoked)
      /\ Range(th[t].invoked) \subseteq Range(th[t].visited)
      /\ Len(th[t].visited) <= Len(th[t].clb)
      /\ th[t].loaded_model.kind # "None" =>
           /\ th[t].pc \in {"finish", "zip_cleanup", "done"}
           /\ th[t].i = Len(th[t].visited)
           /\ th[t].invoked # <<>>
           /\ th[t].invoked[Len(th[t].invoked)] = th[t].i
           /\ th[t].loaded_model.load_backend = th[t].clb[th[t].i]
           /\ Yield(th[t].clb[th[t].i], th[t].art) = "model"
           /\ AllSkipBefore(th[t].clb, th[t].i, th[t].art)
      /\ (Succeeded(t) /\ ~th[t].hit) => th[t].result.value = th[t].loaded_model

(* A load has returned the model of the second backend of its list after   *)
(* the first one was visited and skipped.                                  *)
C6_Witness ==
  \E t \in Threads :
    /\ Succeeded(t) /\ ~th[t].hit
    /\ th[t].visited = <<1, 2>>
    /\ th[t].clb[1] # th[t].clb[2]
    /\ th[t].result.value.load_backend = th[t].clb[2]

DirLoadWithConfig(t) ==
  /\ Done(t) /\ th[t].zip = "" /\ ~th[t].hit
  /\ th[t].dirs_tried # <<>> /\ th[t].result.error # "COR80419785E"
  /\ HasConfig(th[t].art)

(* C7 as stated: a directory with a config, and some configured per-module *)
(* backend whose implementation matches its creation backend: the load     *)
(* returns a model tagged with such a backend.                             *)
C7_MatchingBackendLoads ==
  \A t \in Threads :
    (DirLoadWithConfig(t)
       /\ \E k \in 1..Len(th[t].clb) : Matches(th[t].clb[k], th[t].art))
    => /\ Succeeded(t)
       /\ \E k \in 1..Len(th[t].clb) :
            /\ Matches(th[t].clb[k], th[t].art)
            /\ th[t].result.value.load_backend = th[t].clb[k]

(* C7 amended: when the matching per-module backend is at position k, its  *)
(* loader returns a model, and every backend before k is a soft skip, the  *)
(* load returns a model tagged with backend k.                             *)
C7_FirstMatchingBackendLoads ==
  \A t \in Threads :
    \A k \in 1..Len(th[t].clb) :
      (DirLoadWithConfig(t)
         /\ Matches(th[t].clb[k], th[t].art)
         /\ Yield(th[t].clb[k], th[t].art) = "model"
         /\ AllSkipBefore(th[t].clb, k, th[t].art))
      => /\ Succeeded(t)
         /\ th[t].result.value.kind = "Module"
         /\ th[t].result.value.load_backend = th[t].clb[k]
         /\ th[t].i = k

(* A directory whose config records a creation backend was loaded by the   *)
(* second, matching per-module backend after the first was skipped.        *)
C7_Witness ==
  \E t \in Threads :
    /\ DirLoadWithConfig(t) /\ Succeeded(t)
    /\ ConfigModelBackend(th[t].art) # ""
    /\ th[t].i = 2
    /\ Matches(th[t].clb[2], th[t].art)
    /\ ~Matches(th[t].clb[1], th[t].art)

VisibleDirs(z) == {n \in DOMAIN ZipDirs(z) : n \notin {"__MACOSX"}}

OneLevelDown(t) ==
  /\ Done(t) /\ th[t].zip # ""
  /\ ~HasConfig(ZipRoot(th[t].zip))
  /\ Cardinality(VisibleDirs(th[t].zip)) = 1
  /\ \A n \in VisibleDirs(th[t].zip) :
       /\ HasConfig(ZipDirs(th[t].zip)[n])
       /\ DispatchOutcome(config_backends, ZipDirs(th[t].zip)[n]) = "model"

(* C9 as stated: an archive with no config at its root whose only          *)
(* directory holds a model the configured backends can load: the load      *)
(* succeeds through the fallback.                                          *)
C9_NestedArchiveLoads ==
  \A t \in Threads : OneLevelDown(t) => Succeeded(t) /\ th[t].fell_back

(* C9 amended: ... provided the dispatch at the extraction root ends on    *)
(* the missing config, that is, reaches a per-module backend.              *)
C9_NestedArchiveLoadsAfterConfigMiss ==
  \A t \in Threads :
    (OneLevelDown(t)
       /\ DispatchOutcome(config_backends, ZipRoot(th[t].zip)) = "nocfg")
    => /\ Succeeded(t) /\ th[t].fell_back
       /\ th[t].dirs_tried = <<th[t].extract_path, th[t].module_path>>
       /\ Len(th[t].module_path) = Len(th[t].extract_path) + 1

(* An archive holding "__MACOSX" and one model directory was loaded        *)
(* through the fallback.                                                   *)
C9_Witness ==
  \E t \in Threads :
    /\ OneLevelDown(t) /\ Succeeded(t) /\ th[t].fell_back
    /\ DOMAIN ZipDirs(th[t].zip) # VisibleDirs(th[t].zip)

NoSingleDir(t) ==
  /\ Done(t) /\ th[t].zip # ""
  /\ ~HasConfig(ZipRoot(th[t].zip))
  /\ Cardinality(VisibleDirs(th[t].zip)) # 1

Dispatched(t) == th[t].clb # <<>> \/ th[t].configures > 0

DirLoadNoConfig(t) ==
  /\ Done(t) /\ th[t].zip = "" /\ ~th[t].hit /\ Dispatched(t)
  /\ ~HasConfig(th[t].art)

(* C11 as stated: an existing directory without a config, for which every  *)
(* configured shared backend returns null: the load fails with the         *)
(* "does not contain a config.yml" error, whatever the backend list.       *)
C11_NoManifestFailsManifestError ==
  \A t \in Threads :
    (DirLoadNoConfig(t)
       /\ \A k \in 1..Len(th[t].clb) :
            th[t].clb[k].shared => SharedLoads(th[t].clb[k], th[t].art) = "none")
    => Failed(t, "COR80419785E")

(* C11 amended: the load fails with the "does not contain a config.yml"    *)
(* error when the dispatch reaches a per-module backend, every shared      *)
(* backend before it returning null; when the list holds no per-module     *)
(* backend and every shared backend returns null, the load fails with the  *)
(* "unable to load model" error.                                           *)
C11_NoManifestOutcome ==
  \A t \in Threads :
    DirLoadNoConfig(t) =>
      /\ DispatchOutcome(th[t].clb, th[t].art) = "nocfg"
           => /\ Failed(t, "COR80419785E")
              /\ th[t].result.cls = "FileNotFoundError"
              /\ ~th[t].clb[Len(th[t].visited)].shared
      /\ DispatchOutcome(th[t].clb, th[t].art) = "exhausted"
           => /\ Failed(t, "COR50207494E")
              /\ \A k \in 1..Len(th[t].clb) : th[t].clb[k].shared

(* A directory without a config was refused by a shared backend and then   *)
(* failed at a per-module backend with the config.yml error.               *)
C11_Witness ==
  \E t \in Threads :
    /\ DirLoadNoConfig(t) /\ Failed(t, "COR80419785E")
    /\ th[t].visited = <<1, 2>>
    /\ th[t].clb[1].shared

(* C12: a load of a path that does not exist ends at once: no lock taken,  *)
(* no configure(), no loader, no object built; and the error the caller    *)
(* gets is neither the missing-config error nor the exhaustion error.      *)
C12_MissingPathFailsDistinctly ==
  [][\A t \in Threads :
       (th[t].pc = "dir_exists" /\ ~exists(th[t].module_path)
          /\ th[t].zip = "" /\ th'[t] # th[t])
       => /\ th'[t].pc = "done"
          /\ th'[t].result.status = "error"
          /\ th'[t].took_lock = 0 /\ th'[t].configures = 0
          /\ th'[t].invoked = <<>> /\ th'[t].parses = 0
          /\ n_inst' = n_inst
          /\ singleton_lock_holder' = singleton_lock_holder
          /\ th'[t].result.error \notin {"COR80419785E", "COR50207494E"}]_vars

IsTemp(p) == Len(p) > 0 /\ p[1] = "tmp"

ArchiveLoadRunning(t) ==
  th[t].op = "load" /\ th[t].zip # "" /\ th[t].pc \notin {"idle", "done"}

(* C13: every temporary directory on the disk belongs to an archive load   *)
(* still running, an archive load that is over has had one and it is       *)
(* gone, and no key of the singleton cache is a temporary directory that   *)
(* no longer exists.                                                       *)
C13_TempDirRemovedAndNotCached ==
  /\ \A p \in DOMAIN fs :
       IsTemp(p) => \E t \in Threads :
                      /\ ArchiveLoadRunning(t)
                      /\ th[t].extract_path # <<>>
                      /\ IsPrefix(th[t].extract_path, p)
  /\ \A t \in Threads :
       (Done(t) /\ th[t].zip # "")
       => /\ IsTemp(th[t].extract_path)
          /\ \A p \in DOMAIN fs : ~IsPrefix(th[t].extract_path, p)
  /\ \A t, u \in Threads :
       (t # u /\ th[t].extract_path # <<>>)
       => th[t].extract_path # th[u].extract_path
  /\ \A key \in DOMAIN singleton_module_cache : IsTemp(key) => exists(key)

InBody(t) ==
  /\ th[t].op = "load" /\ th[t].load_singleton
  /\ th[t].pc \in {"lookup", "configure", "loop", "finish"}

(* C14: at most one thread is between the cache lookup and the cache       *)
(* store of a singleton load, whatever the keys; that thread holds the     *)
(* lock; and no clear_singleton_cache happens while a thread is there.     *)
C14_SingletonBodyExclusive ==
  /\ [](\A t, u \in Threads : (InBody(t) /\ InBody(u)) => t = u)
  /\ [](\A t \in Threads : InBody(t) => singleton_lock_holder = t)
  /\ [][clears' # clears => \A t \in Threads : ~InBody(t) /\ ~InBody(t)']_vars

(* One singleton load is in its dispatch loop while a singleton load of    *)
(* another key waits for the lock.                                         *)
C14_Witness ==
  \E t, u \in Threads :
    /\ InBody(t) /\ th[t].pc = "loop"
    /\ th[u].op = "load" /\ th[u].load_singleton /\ th[u].pc = "acquire"
    /\ th[u].module_path # th[t].module_path

(* C15: a load reads the config at most once per directory it dispatches   *)
(* on (once for a directory load); as long as only shared backends were    *)
(* visited in a dispatch, the config was not read in it; and a step of the *)
(* loop reads the config only for a per-module backend, and only when no   *)
(* module_id is known yet.                                                 *)
C15_ConfigParsedOnceLazily ==
  /\ [](\A t \in Threads :
          th[t].op = "load" =>
            /\ th[t].parses <= Len(th[t].dirs_tried)
            /\ th[t].zip = "" => th[t].parses <= 1
            /\ (\A k \in Range(th[t].visited) : th[t].clb[k].shared)
                 => th[t].module_id = "" /\ th[t].parses = th[t].level)
  /\ [][\A t \in Threads :
          (th[t].pc = "loop" /\ th'[t] # th[t])
          => \/ th'[t].parses = th[t].parses
             \/ /\ th'[t].parses = th[t].parses + 1
                /\ ~th[t].clb[th[t].i + 1].shared
                /\ th[t].module_id = ""]_vars

(* A load probed two per-module backends and read the config once.         *)
C15_Witness ==
  \E t \in Threads :
    /\ Done(t) /\ th[t].visited = <<1, 2>>
    /\ ~th[t].clb[1].shared /\ ~th[t].clb[2].shared
    /\ th[t].clb[1] # th[t].clb[2]
    /\ th[t].parses = 1

(* C16 as stated: an existing directory without a config, and some shared  *)
(* backend of the list that returns a model for it: the load succeeds,     *)
(* wherever that backend is in the list.                                   *)
C16_SharedBackendLoadsWithoutManifest ==
  \A t \in Threads :
    (DirLoadNoConfig(t)
       /\ \E k \in 1..Len(th[t].clb) :
            th[t].clb[k].shared /\ SharedLoads(th[t].clb[k], th[t].art) = "model")
    => Succeeded(t)

(* C16 amended: ... the load succeeds with that shared backend's model     *)
(* when every backend before it in the list is a shared backend returning  *)
(* null; the config is then never read.                                    *)
C16_SharedBackendFirstLoadsWithoutManifest ==
  \A t \in Threads :
    \A k \in 1..Len(th[t].clb) :
      (DirLoadNoConfig(t)
         /\ th[t].clb[k].shared /\ SharedLoads(th[t].clb[k], th[t].art) = "model"
         /\ \A j \in 1..(k - 1) :
              th[t].clb[j].shared /\ SharedLoads(th[t].clb[j], th[t].art) = "none")
      => /\ Succeeded(t)
         /\ th[t].i = k
         /\ th[t].result.value.load_backend = th[t].clb[k]
         /\ th[t].parses = 0

(* A directory without a config was loaded by a shared backend that a      *)
(* per-module backend follows in the list.                                 *)
C16_Witness ==
  \E t \in Threads :
    /\ DirLoadNoConfig(t) /\ Succeeded(t)
    /\ Len(th[t].clb) = 2
    /\ th[t].clb[1].shared /\ ~th[t].clb[2].shared

(* C17: a backend that is a soft skip for the artifact (a shared loader    *)
(* returning null, no implementation for the module id, a creation backend *)
(* the implementation does not support, a per-module loader returning      *)
(* null) lets the loop go on to the next backend without an error; the     *)
(* "unable to load model" error is raised exactly when the whole list was  *)
(* walked and every backend was a soft skip; and raising it stores nothing *)
(* in the cache.                                                           *)
C17_OnlyExhaustionIsAnError ==
  /\ [](\A t \in Threads :
          th[t].pc = "finish" =>
            /\ th[t].loaded_model.kind = "None"
                 <=> DispatchOutcome(th[t].clb, th[t].art) = "exhausted"
            /\ th[t].loaded_model.kind = "None"
                 => Len(th[t].visited) = Len(th[t].clb))
  /\ [](\A t \in Threads :
          (Done(t) /\ ~th[t].hit /\ Dispatched(t)) =>
            (Failed(t, "COR50207494E")
               <=> DispatchOutcome(th[t].clb, th[t].art) = "exhausted"))
  /\ [][\A t \in Threads :
          /\ (th[t].pc = "loop" /\ th'[t] # th[t]
                /\ Yield(th[t].clb[th[t].i + 1], th[t].art) = "skip")
             => /\ th'[t].i = th[t].i + 1
                /\ th'[t].pc = IF th[t].i + 1 = Len(th[t].clb)
                               THEN "finish" ELSE "loop"
                /\ th'[t].loaded_model.kind = "None"
                /\ th'[t].result = th[t].result
                /\ th'[t].pending = th[t].pending
          /\ (th[t].pc = "finish" /\ th'[t] # th[t]
                /\ th[t].loaded_model.kind = "None")
             => /\ singleton_module_cache' = singleton_module_cache
                /\ \/ th'[t].result.error = "COR50207494E"
                   \/ th'[t].pending.error = "COR50207494E"]_vars

(* A singleton load of a directory with a config walked two backends,      *)
(* both soft skips, failed with the exhaustion error and left no entry.    *)
C17_Witness ==
  \E t \in Threads :
    /\ Failed(t, "COR50207494E") /\ th[t].load_singleton
    /\ HasConfig(th[t].art)
    /\ th[t].visited = <<1, 2>>
    /\ th[t].module_path \notin DOMAIN singleton_module_cache

TypeContractError == Err("TypeError", "COR76726077E")

(* C18: when a shared backend returns a value that is not None and not a   *)
(* module, that step ends the dispatch with the type error: the loop does  *)
(* not go on, no model is set or tagged, the cache is untouched; and the   *)
(* cache never holds anything but modules.                                 *)
C18_NonModuleFromSharedBackendIsFatal ==
  /\ [](\A key \in DOMAIN singleton_module_cache :
          singleton_module_cache[key].kind = "Module")
  /\ [](\A t \in Threads :
          (Done(t) /\ th[t].result = TypeContractError)
          => /\ th[t].visited # <<>>
             /\ th[t].clb[th[t].visited[Len(th[t].visited)]].shared
             /\ th[t].i = Len(th[t].visited) - 1
             /\ th[t].loaded_model = NoneVal)
  /\ [][\A t \in Threads :
          (th[t].pc = "loop" /\ th'[t] # th[t]
             /\ th[t].clb[th[t].i + 1].shared
             /\ SharedLoads(th[t].clb[th[t].i + 1], th[t].art) = "other")
          => /\ IF th[t].zip = ""
                THEN th'[t].pc = "done" /\ th'[t].result = TypeContractError
                ELSE th'[t].pc = "zip_cleanup"
                     /\ th'[t].pending = TypeContractError
             /\ th'[t].loaded_model = NoneVal
             /\ th'[t].visited = Append(th[t].visited, th[t].i + 1)
             /\ singleton_module_cache' = singleton_module_cache
             /\ singleton_lock_holder' # t]_vars

(* A singleton load failed with the type error at the first of two         *)
(* backends; the second was never visited and the cache has no entry.      *)
C18_Witness ==
  \E t \in Threads :
    /\ Done(t) /\ th[t].result = TypeContractError
    /\ th[t].load_singleton
    /\ Len(th[t].clb) = 2 /\ th[t].visited = <<1>>
    /\ singleton_module_cache = <<>>

LoaderOf(t, k) == Registry(th[t].module_id, th[t].clb[k].backend_type)

C20_ConfigureAtMostOnce ==
  [][\A t \in Threads :
       th'[t].configures > th[t].configures
       => configured_load_backends = <<>>]_vars

EndedInError(r) ==
  \/ r.pc = "done" /\ r.result.status = "error"
  \/ r.pc = "zip_cleanup" /\ r.pending.status = "error"
  \/ r.pc = "zip_fallback"

(* C21: a thread whose load is over, or whose dispatch has raised, does    *)
(* not hold the lock; a step by which a singleton load raises leaves the   *)
(* cache as it was; and the cache changes, a clear aside, only by the      *)
(* final step of a singleton load that holds the lock and has a model,     *)
(* which stores that model and returns it.                                 *)
C21_FailedSingletonLoadLeavesNoTrace ==
  /\ [](\A t \in Threads :
          (th[t].pc \in {"idle", "done", "zip_cleanup", "zip_fallback"})
          => singleton_lock_holder # t)
  /\ [](\A key \in DOMAIN singleton_module_cache :
          singleton_module_cache[key] # NoneVal)
  /\ [][\A t \in Threads :
          (th'[t] # th[t] /\ th[t].load_singleton /\ th[t].op = "load"
             /\ ~EndedInError(th[t]) /\ EndedInError(th'[t]))
          => /\ singleton_module_cache' = singleton_module_cache
             /\ singleton_lock_holder' # t]_vars
  /\ [][(singleton_module_cache' # singleton_module_cache /\ clears' = clears)
          => \E t \in Threads :
               /\ th[t].pc = "finish" /\ th[t].load_singleton
               /\ singleton_lock_holder = t
               /\ th[t].loaded_model # NoneVal
               /\ singleton_module_cache' =
                    (th[t].module_path :> th[t].loaded_model)
                      @@ singleton_module_cache
               /\ \/ th'[t].result = Ok(th[t].loaded_model)
                  \/ th'[t].pending = Ok(th[t].loaded_model)]_vars

(* A singleton load took the lock and failed; another singleton load now   *)
(* holds the lock, and the cache is as empty as it was.                    *)
C21_Witness ==
  \E t, u \in Threads :
    /\ Done(t) /\ th[t].load_singleton /\ th[t].took_lock = 1
    /\ th[t].result.status = "error"
    /\ u # t /\ InBody(u) /\ singleton_lock_holder = u
    /\ singleton_module_cache = <<>>

TopLevelSingleton(t) ==
  th[t].op = "load" /\ th[t].outer = <<>> /\ th[t].load_singleton

(* C22: every call of load(..., load_singleton=True) eventually returns    *)
(* or raises, also when the loader it runs loads a sub-model as a          *)
(* singleton through the same manager.                                     *)
C22_SingletonLoadsReturn ==
  \A t \in Threads :
    (TopLevelSingleton(t) /\ th[t].pc # "done")
      ~> (th[t].outer = <<>> /\ th[t].pc = "done")

=============================================================================
